---------------------------- MODULE Spec2Model ----------------------------
(***************************************************************************)
(* A model of the scheduling helpers of the GPU-cluster simulator:         *)
(*   simulator/rl_helpers.py  ReplayBuffer, QNetwork, DQNAgent             *)
(*   simulator/utils.py       _add_job, large_job_pruning, lottery_sort,   *)
(*                            fair_share_group, fair_share_user            *)
(* Each component has its own specification (SpecBuffer, SpecSoft,         *)
(* SpecAgent, SpecPrune, SpecLottery, SpecFair, ...) over one set of variables; *)
(* a specification keeps the variables of the other components at their    *)
(* idle values.                                                            *)
(***************************************************************************)
EXTENDS Integers, Sequences, FiniteSets, TLC

VARIABLES
    op,                 \* the call made by the last step: its name, arguments, result
    memory,             \* ReplayBuffer.memory, the deque, oldest first
    buffer_size,        \* the deque's maxlen
    batch_size,         \* ReplayBuffer.batch_size
    hist,               \* history: every experience ever passed to add, in order
    t_step,             \* DQNAgent.t_step
    qnetwork_local,     \* parameters of DQNAgent.qnetwork_local
    qnetwork_target,    \* parameters of DQNAgent.qnetwork_target
    calls,              \* history: number of calls made so far (step / soft_update / policy)
    job_list,           \* the caller's job list
    limits,             \* the configured per-job caps <<gpu_limit, cpu_limit>>
    cumulative_tickets, \* lottery_sort's local list
    total_tickets,      \* lottery_sort's local counter
    i,                  \* lottery_sort's loop index, -1 before the first iteration
    winning_ticket,     \* lottery_sort's last draw
    winning_index,      \* lottery_sort's last search result
    pc,                 \* position of the running lottery_sort call
    draws,              \* history: every draw of the running lottery_sort call
    input_list,         \* history: the job list as passed to the running call
    gpu_time_used,      \* fair_share_*'s local dict as the last call left it
    policy,             \* the allocation policy selected by configuration
    rng,                \* the state of the random module's global generator
    streams             \* history: per component, the seed it was given and its own draws

bufferVars  == <<memory, buffer_size, batch_size, hist>>
agentVars   == <<t_step, qnetwork_local, qnetwork_target>>
lotteryVars == <<cumulative_tickets, total_tickets, i, winning_ticket,
                 winning_index, pc, draws, input_list>>
fairVars    == <<gpu_time_used, policy>>
randomVars  == <<rng, streams>>
vars == <<op, memory, buffer_size, batch_size, hist, t_step, qnetwork_local,
          qnetwork_target, calls, job_list, limits, cumulative_tickets,
          total_tickets, i, winning_ticket, winning_index, pc, draws,
          input_list, gpu_time_used, policy, rng, streams>>

-----------------------------------------------------------------------------
(* Bounds of the model. *)
MaxCapacity == 3        \* largest buffer_size a ReplayBuffer is constructed with
MaxAdds == 5            \* add calls on one ReplayBuffer
NumExperiences == 2     \* distinct experience values passed to add
StateSize == 1          \* QNetwork state_size
Fc1Units == 1           \* QNetwork fc1_units
Fc2Units == 1           \* QNetwork fc2_units
ActionSize == 2         \* QNetwork action_size
MaxSeed == 3            \* seeds a network is constructed with: 0 .. MaxSeed
MaxSoftCalls == 2       \* soft_update calls in SpecSoft
MaxSteps == 72          \* agent.step calls in SpecAgent
MaxJobs == 2            \* jobs on the list in SpecPrune
MaxLotteryJobs == 3     \* jobs on the list passed to lottery_sort
MaxFairJobs == 3        \* jobs on the list passed to fair_share_*
MaxFairCalls == 3       \* successive fair_share_* calls on one list
MaxBatchJobs == 3       \* jobs in the batch given to add_user_round_robin_id
MaxRridCalls == 2       \* calls of add_user_round_robin_id in one run
MaxRandomCalls == 4     \* calls that touch the global generator in SpecRandom
RandDen == 4            \* random.random() draws from {0/RandDen .. (RandDen-1)/RandDen}

-----------------------------------------------------------------------------
(* Exact rational arithmetic for network parameters: <<n, d>>, d > 0,      *)
(* in lowest terms.                                                        *)
Abs(x) == IF x < 0 THEN -x ELSE x

RECURSIVE GCD(_, _)
GCD(a, b) == IF b = 0 THEN a ELSE GCD(b, a % b)

Rat(n, d) ==
    LET s == IF d < 0 THEN -1 ELSE 1
        g == GCD(Abs(n), Abs(d))
    IN  <<(s * n) \div g, (s * d) \div g>>

RInt(n)    == <<n, 1>>
\* sums are formed over the least common denominator and products are
\* reduced crosswise first, so that intermediate values stay small
RAdd(x, y) ==
    LET g == GCD(x[2], y[2])
    IN  Rat(x[1] * (y[2] \div g) + y[1] * (x[2] \div g), (x[2] \div g) * y[2])
RNeg(x)    == <<-x[1], x[2]>>
RSub(x, y) == RAdd(x, RNeg(y))
RMul(x, y) ==
    LET g1 == GCD(Abs(x[1]), y[2])
        g2 == GCD(Abs(y[1]), x[2])
    IN  Rat((x[1] \div g1) * (y[1] \div g2), (x[2] \div g2) * (y[2] \div g1))
RLt(x, y)  == x[1] * y[2] < y[1] * x[2]
RGt(x, y)  == RLt(y, x)

-----------------------------------------------------------------------------
(* Idle values of each component's variables. *)
BufferIdle ==
    /\ memory = <<>>
    /\ buffer_size = 0
    /\ batch_size = 0
    /\ hist = <<>>

AgentIdle ==
    /\ t_step = 0
    /\ qnetwork_local = <<>>
    /\ qnetwork_target = <<>>

JobsIdle ==
    /\ job_list = <<>>
    /\ limits = <<0, 0>>

LotteryIdle ==
    /\ cumulative_tickets = <<>>
    /\ total_tickets = 0
    /\ i = -1
    /\ winning_ticket = 0
    /\ winning_index = -1
    /\ pc = "idle"
    /\ draws = <<>>
    /\ input_list = <<>>

FairIdle ==
    /\ gpu_time_used = <<>>
    /\ policy = 0

RandomIdle ==
    /\ rng = <<>>
    /\ streams = <<>>

-----------------------------------------------------------------------------
(* ReplayBuffer (rl_helpers.py 26-50). *)
Experiences == 1 .. NumExperiences

\* deque(maxlen).append drops the newest element instead of the oldest
ReplayBuffer_add_DropNewest(mem, maxlen, e) ==
    IF Len(mem) >= maxlen THEN mem ELSE Append(mem, e)

\* self.memory.append(e) on a deque(maxlen=buffer_size): append on the right,
\* and once the length exceeds maxlen discard from the left
ReplayBuffer_add(mem, maxlen, e) ==
    LET s == Append(mem, e)
    IN  IF Len(s) > maxlen THEN Tail(s) ELSE s

\* len(buffer)
ReplayBuffer_len(mem) == Len(mem)

InitBuffer ==
    /\ op = [name |-> "init"]
    /\ memory = <<>>
    /\ buffer_size \in 0 .. MaxCapacity
    /\ batch_size = 1
    /\ hist = <<>>
    /\ calls = 0
    /\ AgentIdle /\ JobsIdle /\ LotteryIdle /\ FairIdle
    /\ RandomIdle

Add(e) ==
    /\ Len(hist) < MaxAdds
    /\ memory' = ReplayBuffer_add(memory, buffer_size, e)
    /\ hist' = Append(hist, e)
    /\ op' = [name |-> "add", e |-> e]
    /\ UNCHANGED <<buffer_size, batch_size, calls, job_list, limits, randomVars>>
    /\ UNCHANGED <<agentVars, lotteryVars, fairVars>>

NextBuffer == \E e \in Experiences : Add(e)

SpecBuffer == InitBuffer /\ [][NextBuffer]_vars

-----------------------------------------------------------------------------
(* Claims about the ReplayBuffer. *)
Min(a, b) == IF a < b THEN a ELSE b

\* the last k elements of s, in order
LastK(s, k) == SubSeq(s, Len(s) - k + 1, Len(s))

\* C1: after any sequence of add calls on a buffer of capacity C the buffer
\* holds at most C experiences, and exactly the most recent min(n, C) of the
\* n added, in insertion order (so the (C+1)-th add evicts the oldest only).
C1_RingBuffer ==
    /\ ReplayBuffer_len(memory) <= buffer_size
    /\ memory = LastK(hist, Min(Len(hist), buffer_size))

\* the (C+1)-th add has just evicted the first experience added
C1_Witness ==
    /\ op.name = "add"
    /\ buffer_size >= 2
    /\ Len(hist) = buffer_size + 1
    /\ memory = Tail(hist)
    /\ hist[1] # hist[2]

-----------------------------------------------------------------------------
(* QNetwork (rl_helpers.py 9-20).  A network is the sequence of its        *)
(* parameter tensors in the order of parameters(): fc1.weight, fc1.bias,   *)
(* fc2.weight, fc2.bias, fc3.weight, fc3.bias; a weight tensor is kept     *)
(* row-major, one row per output unit.                                     *)
TensorSizes ==
    << Fc1Units * StateSize, Fc1Units,
       Fc2Units * Fc1Units,  Fc2Units,
       ActionSize * Fc2Units, ActionSize >>

\* torch.manual_seed(seed) followed by the nn.Linear constructors: the
\* parameters are a fixed function of the seed; the generator's values are
\* stood in for by a small function of the seed and the position
QNetwork(seed) ==
    [t \in 1 .. 6 |->
        [j \in 1 .. TensorSizes[t] |->
            RInt((((seed \div (1 + ((t + j) % 2))) + t + j) % 3) - 1)]]

Seeds == 0 .. MaxSeed

\* Hyperparameter TAU = 1e-3
TAU == <<1, 1000>>

\* the rates soft_update is called with
Taus == {RInt(0), TAU, <<1, 2>>, RInt(1)}

\* soft_update with the two weights exchanged
soft_update_Swapped(local_model, target_model, tau) ==
    [t \in DOMAIN target_model |->
        IF t <= Len(local_model)
        THEN [j \in DOMAIN target_model[t] |->
                RAdd(RMul(RSub(RInt(1), tau), local_model[t][j]),
                     RMul(tau, target_model[t][j]))]
        ELSE target_model[t]]

\* the update applied two times in a row
soft_update_Twice(local_model, target_model, tau) ==
    [t \in DOMAIN target_model |->
        IF t <= Len(local_model)
        THEN [j \in DOMAIN target_model[t] |->
                LET once == RAdd(RMul(tau, local_model[t][j]),
                                 RMul(RSub(RInt(1), tau), target_model[t][j]))
                IN  RAdd(RMul(tau, local_model[t][j]),
                         RMul(RSub(RInt(1), tau), once))]
        ELSE target_model[t]]

\* DQNAgent.soft_update: the new parameters of target_model.  zip pairs the
\* parameter tensors position by position and stops at the shorter list;
\* each pair is combined elementwise.
soft_update(local_model, target_model, tau) ==
    [t \in DOMAIN target_model |->
        IF t <= Len(local_model)
        THEN [j \in DOMAIN target_model[t] |->
                RAdd(RMul(tau, local_model[t][j]),
                     RMul(RSub(RInt(1), tau), target_model[t][j]))]
        ELSE target_model[t]]

InitSoft ==
    /\ op = [name |-> "init"]
    /\ \E sl \in Seeds, st \in Seeds :
          /\ qnetwork_local = QNetwork(sl)
          /\ qnetwork_target = QNetwork(st)
    /\ t_step = 0
    /\ calls = 0
    /\ BufferIdle /\ JobsIdle /\ LotteryIdle /\ FairIdle
    /\ RandomIdle

SoftUpdate(tau) ==
    /\ calls < MaxSoftCalls
    /\ qnetwork_target' = soft_update(qnetwork_local, qnetwork_target, tau)
    /\ calls' = calls + 1
    /\ op' = [name |-> "soft_update", tau |-> tau]
    /\ UNCHANGED <<qnetwork_local, t_step, job_list, limits, randomVars>>
    /\ UNCHANGED <<bufferVars, lotteryVars, fairVars>>

NextSoft == \E tau \in Taus : SoftUpdate(tau)

SpecSoft == InitSoft /\ [][NextSoft]_vars

\* v = tau * a + (1 - tau) * b, stated as v - b = tau * (a - b)
IsMix(v, tau, a, b) == RSub(v, b) = RMul(tau, RSub(a, b))

\* C4: one call of soft_update(local, target, tau) sets every target
\* parameter to tau * local + (1 - tau) * (old target), pairing parameters
\* position by position, and leaves every local parameter unchanged.
C4_SoftUpdate ==
    [][ op'.name = "soft_update" =>
          /\ DOMAIN qnetwork_target' = DOMAIN qnetwork_target
          /\ \A t \in DOMAIN qnetwork_target :
                /\ DOMAIN qnetwork_target'[t] = DOMAIN qnetwork_target[t]
                /\ \A j \in DOMAIN qnetwork_target[t] :
                      IsMix(qnetwork_target'[t][j], op'.tau,
                            qnetwork_local[t][j], qnetwork_target[t][j])
          /\ qnetwork_local' = qnetwork_local ]_vars

\* a soft update with TAU has moved a target parameter strictly between its
\* old value and the local one
C4_Witness ==
    /\ op.name = "soft_update"
    /\ op.tau = TAU
    /\ calls = 1
    /\ \E t \in DOMAIN qnetwork_target : \E j \in DOMAIN qnetwork_target[t] :
          /\ qnetwork_target[t][j][2] = 1000
          /\ qnetwork_local[t][j][2] = 1

-----------------------------------------------------------------------------
(* DQNAgent (rl_helpers.py 53-118) and the hyperparameters (120-126). *)
BATCH_SIZE == 64
UPDATE_EVERY == 4
AgentBufferSize == 10000    \* buffer_size passed to ReplayBuffer by DQNAgent.__init__
AgentBatchSize == 64        \* batch_size passed to ReplayBuffer by DQNAgent.__init__
AgentSeed == 0              \* seed of the module-level agent

RECURSIVE RSum(_)
RSum(s) == IF s = <<>> THEN RInt(0) ELSE RAdd(Head(s), RSum(Tail(s)))

\* torch.relu
Relu(x) == IF RLt(x, RInt(0)) THEN RInt(0) ELSE x

\* nn.Linear(nIn, nOut) applied to x: W x + b  (SubSeq makes the vector a
\* tuple, so that it is computed once)
Linear(w, b, x, nIn, nOut) ==
    SubSeq([u \in 1 .. nOut |->
               RAdd(RSum([k \in 1 .. nIn |-> RMul(w[(u - 1) * nIn + k], x[k])]),
                    b[u])], 1, nOut)

\* torch.relu, elementwise
ReluAll(v) == SubSeq([u \in 1 .. Len(v) |-> Relu(v[u])], 1, Len(v))

\* QNetwork.forward: fc3(relu(fc2(relu(fc1(state)))))
Forward(net, state) ==
    LET h1 == ReluAll(Linear(net[1], net[2], state, StateSize, Fc1Units))
        h2 == ReluAll(Linear(net[3], net[4], h1, Fc1Units, Fc2Units))
    IN  Linear(net[5], net[6], h2, Fc2Units, ActionSize)

\* np.argmax: the first index (from 0) of a largest value
Argmax(values) ==
    CHOOSE a \in 0 .. Len(values) - 1 :
        /\ \A b \in 0 .. Len(values) - 1 : ~RLt(values[a + 1], values[b + 1])
        /\ \A b \in 0 .. a - 1 : RLt(values[b + 1], values[a + 1])

\* the test `random.random() > eps` of act
TakesGreedy(draw, eps) == RGt(draw, eps)

\* the test of step with >= in place of >
EnoughSamples_AtLeast(n) == n >= BATCH_SIZE

\* a guard that only asks for a non-empty buffer
EnoughSamples_NonEmpty(n) == n > 0

\* the test `len(self.memory) > BATCH_SIZE` of step
EnoughSamples(n) == n > BATCH_SIZE

\* state vectors passed to act
InputStates == { [k \in 1 .. StateSize |-> RInt(v)] : v \in {0, 1} }
\* eps values passed to act: 0, a value in between, 1
EpsValues == { Rat(k, RandDen) : k \in {0, RandDen \div 2, RandDen} }
\* outcomes of random.random(): a grid on [0, 1)
RandomDraws == { Rat(k, RandDen) : k \in 0 .. RandDen - 1 }

\* the effect of loss.backward() and optimizer.step() on the local network:
\* some change of its parameters, here a shift of one tensor by d
OptimizerStep(net, t, d) ==
    [net EXCEPT ![t] = [j \in DOMAIN net[t] |-> RAdd(net[t][j], RInt(d))]]

InitAgent ==
    /\ op = [name |-> "init"]
    /\ qnetwork_local = QNetwork(AgentSeed)
    /\ qnetwork_target = QNetwork(AgentSeed)
    /\ memory = <<>>
    /\ buffer_size = AgentBufferSize
    /\ batch_size = AgentBatchSize
    /\ hist = <<>>
    /\ t_step = 0
    /\ calls = 0
    /\ JobsIdle /\ LotteryIdle /\ FairIdle
    /\ RandomIdle

\* agent.step(...): e stands for the experience tuple built from the arguments
Step(e) ==
    /\ calls < MaxSteps
    /\ LET mem == ReplayBuffer_add(memory, buffer_size, e)
           t   == (t_step + 1) % UPDATE_EVERY
           learns == t = 0 /\ EnoughSamples(ReplayBuffer_len(mem))
       IN  /\ memory' = mem
           /\ hist' = Append(hist, e)
           /\ t_step' = t
           /\ IF learns
              THEN IF ReplayBuffer_len(mem) >= batch_size
                   THEN \E t1 \in 1 .. 6, d \in {-1, 1} :
                           LET trained == OptimizerStep(qnetwork_local, t1, d)
                           IN  /\ qnetwork_local' = trained
                               /\ qnetwork_target' =
                                      soft_update(trained, qnetwork_target, TAU)
                               /\ op' = [name |-> "step", e |-> e,
                                         sampled |-> TRUE, raised |-> FALSE,
                                         learned |-> TRUE]
                   ELSE \* random.sample raises ValueError: sample larger than population
                        /\ UNCHANGED <<qnetwork_local, qnetwork_target>>
                        /\ op' = [name |-> "step", e |-> e, sampled |-> TRUE,
                                  raised |-> TRUE, learned |-> FALSE]
              ELSE /\ UNCHANGED <<qnetwork_local, qnetwork_target>>
                   /\ op' = [name |-> "step", e |-> e, sampled |-> FALSE,
                             raised |-> FALSE, learned |-> FALSE]
    /\ calls' = calls + 1
    /\ UNCHANGED <<buffer_size, batch_size, job_list, limits, randomVars>>
    /\ UNCHANGED <<lotteryVars, fairVars>>

\* agent.act(state, eps): draw is the outcome of random.random(); only the
\* else branch calls random.choice(np.arange(action_size))
Act(state, eps, draw) ==
    /\ LET action_values == Forward(qnetwork_local, state)
       IN  IF TakesGreedy(draw, eps)
           THEN op' = [name |-> "act", state |-> state, eps |-> eps,
                       draw |-> draw, greedy |-> TRUE,
                       ret |-> Argmax(action_values)]
           ELSE \E choice \in 0 .. ActionSize - 1 :
                   op' = [name |-> "act", state |-> state, eps |-> eps,
                          draw |-> draw, greedy |-> FALSE, ret |-> choice]
    /\ UNCHANGED <<calls, job_list, limits, randomVars>>
    /\ UNCHANGED <<bufferVars, agentVars, lotteryVars, fairVars>>

NextAgent ==
    \/ Step(calls + 1)
    \/ \E state \in InputStates, eps \in EpsValues, draw \in RandomDraws :
          Act(state, eps, draw)

SpecAgent == InitAgent /\ [][NextAgent]_vars

\* C2: the k-th call of step performs a learning step iff k is a multiple of
\* UPDATE_EVERY and the buffer, with the experience just recorded by that
\* call, holds more than BATCH_SIZE experiences; the call's experience is in
\* the buffer, and t_step is k mod UPDATE_EVERY.
C2_LearnCadence ==
    /\ t_step = calls % UPDATE_EVERY
    /\ op.name = "step" =>
          /\ memory # <<>> /\ memory[Len(memory)] = op.e
          /\ Len(memory) = Min(calls, buffer_size)
          /\ op.learned <=>
                (calls % UPDATE_EVERY = 0 /\ Len(memory) > BATCH_SIZE)

\* the first learning step: call 68
C2_Witness ==
    /\ op.name = "step"
    /\ op.learned
    /\ calls = 68
    /\ qnetwork_target # qnetwork_local

\* C12: while the buffer holds fewer than batch_size experiences step skips
\* learning and does not raise; whenever step calls ReplayBuffer.sample the
\* buffer holds at least the buffer's own batch_size experiences, so
\* random.sample(self.memory, k=self.batch_size) does not fail.
C12_SampleNeverFails ==
    op.name = "step" =>
        /\ ~op.raised
        /\ Len(memory) < batch_size => ~op.learned /\ ~op.sampled
        /\ op.sampled => Len(memory) >= batch_size

\* a step that sampled, and the buffer it sampled from
C12_Witness ==
    /\ op.name = "step"
    /\ op.sampled /\ ~op.raised
    /\ Len(memory) >= batch_size
    /\ batch_size = AgentBatchSize

\* C20: the target network changes only in a learning step, by one soft
\* update with TAU from the local network as the gradient update of that step
\* left it; act changes neither network, nor the replay buffer, nor t_step;
\* a step that does not learn changes only the replay buffer and t_step.
C20_NetworkFrame ==
    [][ /\ op'.name = "act" =>
              UNCHANGED <<qnetwork_local, qnetwork_target, memory, t_step>>
        /\ (op'.name = "step" /\ ~op'.learned) =>
              UNCHANGED <<qnetwork_local, qnetwork_target>>
        /\ (op'.name = "step" /\ op'.learned) =>
              /\ DOMAIN qnetwork_target' = DOMAIN qnetwork_target
              /\ \A t \in DOMAIN qnetwork_target :
                    \A j \in DOMAIN qnetwork_target[t] :
                        IsMix(qnetwork_target'[t][j], TAU,
                              qnetwork_local'[t][j], qnetwork_target[t][j])
        /\ qnetwork_target' # qnetwork_target =>
              op'.name = "step" /\ op'.learned ]_vars

\* the second learning step, call 72: the local network has been trained
\* twice and the target has followed it part of the way
C20_Witness ==
    /\ op.name = "step"
    /\ op.learned
    /\ calls = 72
    /\ qnetwork_target # qnetwork_local
    /\ qnetwork_target # QNetwork(AgentSeed)

\* C3: with eps = 0 act returns the argmax of the local network's action
\* values for every state and every outcome of the draw; with eps = 1 it
\* never takes the argmax branch and returns an action of the action space.
C3_EpsilonGreedy ==
    op.name = "act" =>
        /\ op.eps = RInt(0) =>
              op.ret = Argmax(Forward(qnetwork_local, op.state))
        /\ op.eps = RInt(1) =>
              ~op.greedy /\ op.ret \in 0 .. ActionSize - 1

\* the half of C3 about eps = 1
C3_EpsilonOne ==
    op.name = "act" /\ op.eps = RInt(1) =>
        ~op.greedy /\ op.ret \in 0 .. ActionSize - 1

-----------------------------------------------------------------------------
(* Job Record Builder and Resource Guard (utils.py 88-139, 157-169).       *)
(* A raw field is Absent (no such key), Empty (the empty string) or a      *)
(* decimal string, kept as its value in eighths (Str(12) stands for        *)
(* "1.5"), so that 100 * float(v) is exact as it is in binary floating     *)
(* point.                                                                  *)
RawUnit == 2 * 2 * 2    \* a power of two: such fractions are exact floats
Absent == [kind |-> "absent", val |-> 0]
Empty  == [kind |-> "empty", val |-> 0]
Str(k) == [kind |-> "str", val |-> k]

\* Python's round(n / d), d > 0: to the nearest integer, ties to even
RoundHalfEven(n, d) ==
    LET q == n \div d
        r == n - q * d
    IN  IF 2 * r < d THEN q
        ELSE IF 2 * r > d THEN q + 1
        ELSE IF q % 2 = 0 THEN q ELSE q + 1

\* Python's int(n / d), d > 0: truncation towards zero
Trunc(n, d) == IF n >= 0 THEN n \div d ELSE -((-n) \div d)

\* str.isdigit(): a non-empty string of digits only
IsDigit(v) == v.kind = "str" /\ v.val >= 0 /\ v.val % RawUnit = 0

\* lines 90-95: a digit string becomes round(float(value)), an int; the
\* result is the field's numeric value in eighths
FirstLoop(v) ==
    IF IsDigit(v) THEN RoundHalfEven(v.val, RawUnit) * RawUnit ELSE v.val

\* lines 102-113 for num_cpu / num_gpu: 0 when missing or empty, else the
\* request in percent
Percent(v) ==
    IF v.kind \in {"absent", "empty"} THEN 0
    ELSE RoundHalfEven(100 * FirstLoop(v), RawUnit)

\* lines 102-113 for submit_time / num_inst
Count(v) ==
    IF v.kind \in {"absent", "empty"} THEN 1
    ELSE RoundHalfEven(FirstLoop(v), RawUnit)

\* the truncation without the floor at 1
Duration_NoFloor(v) == Trunc(FirstLoop(v), RawUnit)

\* lines 116-118: int(float(duration)), floored at 1
Duration(v) ==
    LET dur == Trunc(FirstLoop(v), RawUnit)
    IN  IF dur <= 0 THEN 1 ELSE dur

\* the job record _add_job appends for a raw row
BuildJob(row) ==
    LET num_cpu == Percent(row.num_cpu)
        num_gpu == Percent(row.num_gpu)
        duration == Duration(row.duration)
    IN  [ user |-> row.user,
          num_cpu |-> num_cpu,
          num_gpu |-> num_gpu,
          submit_time |-> Count(row.submit_time),
          num_inst |-> Count(row.num_inst),
          duration |-> duration,
          size |-> (num_gpu + num_cpu) * duration,
          on_time |-> 0,
          wasted |-> 0,
          jct |-> -1,
          resource |-> <<num_gpu, num_cpu>>,
          node |-> "None" ]

\* the clamp of num_cpu uses gpu_limit
PruneJob_WrongLimit(job, gpu_limit, cpu_limit) ==
    LET j1 == IF "num_gpu" \in DOMAIN job /\ job.num_gpu > gpu_limit
              THEN [job EXCEPT !.num_gpu = gpu_limit] ELSE job
    IN  IF "num_cpu" \in DOMAIN j1 /\ j1.num_cpu > cpu_limit
        THEN [j1 EXCEPT !.num_cpu = gpu_limit] ELSE j1

\* a guard that also recomputes size and resource from the clamped requests
PruneJob_Recompute(job, gpu_limit, cpu_limit) ==
    LET j2 == IF "num_gpu" \in DOMAIN job /\ job.num_gpu > gpu_limit
              THEN [job EXCEPT !.num_gpu = gpu_limit] ELSE job
        j3 == IF "num_cpu" \in DOMAIN j2 /\ j2.num_cpu > cpu_limit
              THEN [j2 EXCEPT !.num_cpu = cpu_limit] ELSE j2
    IN  [j3 EXCEPT !.size = (j3.num_gpu + j3.num_cpu) * j3.duration,
                   !.resource = <<j3.num_gpu, j3.num_cpu>>]

\* lines 161-168: the body of large_job_pruning's loop for one job
PruneJob(job, gpu_limit, cpu_limit) ==
    LET j1 == IF "num_gpu" \in DOMAIN job /\ job.num_gpu > gpu_limit
              THEN [job EXCEPT !.num_gpu = gpu_limit] ELSE job
    IN  IF "num_cpu" \in DOMAIN j1 /\ j1.num_cpu > cpu_limit
        THEN [j1 EXCEPT !.num_cpu = cpu_limit] ELSE j1

\* large_job_pruning on a list: the list after the call
large_job_pruning(jobs, gpu_limit, cpu_limit) ==
    [k \in 1 .. Len(jobs) |-> PruneJob(jobs[k], gpu_limit, cpu_limit)]

\* raw rows of the trace
RawRows ==
    [ user : {"u1"},
      num_gpu : {Absent, Str(5), Str(12)},      \* missing, "0.625", "1.5"
      num_cpu : {Empty, Str(100)},              \* "", "12.5"
      duration : {Str(-4), Str(20)},            \* "-0.5", "2.5"
      submit_time : {Absent},
      num_inst : {Absent} ]

\* configured caps
GpuLimits == {100, 800}
CpuLimits == {600}

InitPrune ==
    /\ op = [name |-> "init"]
    /\ job_list = <<>>
    /\ limits \in GpuLimits \X CpuLimits
    /\ calls = 0
    /\ BufferIdle /\ AgentIdle /\ LotteryIdle /\ FairIdle
    /\ RandomIdle

\* _add_job(job_list, row)
AddJob(row) ==
    /\ Len(job_list) < MaxJobs
    /\ job_list' = Append(job_list, BuildJob(row))
    /\ op' = [name |-> "_add_job", row |-> row]
    /\ UNCHANGED <<limits, calls, randomVars>>
    /\ UNCHANGED <<bufferVars, agentVars, lotteryVars, fairVars>>

\* large_job_pruning(job_list, gpu_limit, cpu_limit) with the configured caps
Prune ==
    /\ job_list' = large_job_pruning(job_list, limits[1], limits[2])
    /\ op' = [name |-> "large_job_pruning", ret |-> job_list']
    /\ UNCHANGED <<limits, calls, randomVars>>
    /\ UNCHANGED <<bufferVars, agentVars, lotteryVars, fairVars>>

\* large_job_pruning(None, gpu_limit, cpu_limit): lines 158-159 return a new
\* empty list; the job list of the run is not involved
PruneNone ==
    /\ op' = [name |-> "large_job_pruning(None)", ret |-> <<>>]
    /\ UNCHANGED <<job_list, limits, calls, randomVars>>
    /\ UNCHANGED <<bufferVars, agentVars, lotteryVars, fairVars>>

NextPrune ==
    \/ \E row \in RawRows : AddJob(row)
    \/ Prune
    \/ PruneNone

SpecPrune == InitPrune /\ [][NextPrune]_vars

\* C13: the record _add_job appends has an integer duration >= 1 (1 when the
\* truncated duration is not positive), size = (num_gpu + num_cpu) * duration,
\* resource = [num_gpu, num_cpu], on_time = 0, wasted = 0, jct = -1 and no
\* node; it becomes the last element of the list and the earlier entries keep
\* their places.
C13_AddJobRecord ==
    [][ op'.name = "_add_job" =>
          /\ Len(job_list') = Len(job_list) + 1
          /\ SubSeq(job_list', 1, Len(job_list)) = job_list
          /\ LET job == job_list'[Len(job_list')]
                 raw == op'.row.duration.val     \* float(duration), in eighths
             IN  /\ job.duration \in Nat /\ job.duration >= 1
                 /\ raw < RawUnit => job.duration = 1
                 /\ raw >= RawUnit =>
                       /\ job.duration * RawUnit <= raw
                       /\ raw < (job.duration + 1) * RawUnit
                 /\ job.size = (job.num_gpu + job.num_cpu) * job.duration
                 /\ job.resource = <<job.num_gpu, job.num_cpu>>
                 /\ job.on_time = 0 /\ job.wasted = 0 /\ job.jct = -1
                 /\ job.node = "None" ]_vars

\* a row with duration "-0.5" was appended behind an earlier job
C13_Witness ==
    /\ op.name = "_add_job"
    /\ op.row.duration = Str(-4)
    /\ Len(job_list) = MaxJobs
    /\ job_list[Len(job_list)].duration = 1
    /\ job_list[Len(job_list)].size > 0

\* C5: after large_job_pruning every job has num_gpu <= gpu_limit and
\* num_cpu <= cpu_limit, a request that exceeded a limit equals the limit,
\* and a job already within both limits is unmodified.
C5_ResourceGuard ==
    [][ op'.name = "large_job_pruning" =>
          /\ Len(job_list') = Len(job_list)
          /\ \A k \in 1 .. Len(job_list) :
                LET old == job_list[k]
                    new == job_list'[k]
                IN  /\ new.num_gpu <= limits[1]
                    /\ new.num_cpu <= limits[2]
                    /\ old.num_gpu > limits[1] => new.num_gpu = limits[1]
                    /\ old.num_cpu > limits[2] => new.num_cpu = limits[2]
                    /\ (old.num_gpu <= limits[1] /\ old.num_cpu <= limits[2])
                          => new = old ]_vars

\* a call has clamped the GPU request of one job and the CPU request of
\* another, and left a third kind of job alone
C5_Witness ==
    /\ op.name = "large_job_pruning"
    /\ Len(job_list) = 2
    /\ job_list[1].num_gpu = limits[1] /\ job_list[1].resource[1] > limits[1]
    /\ job_list[2].num_cpu = limits[2] /\ job_list[2].resource[2] > limits[2]
    /\ job_list[2].num_gpu < limits[1]

\* C14: large_job_pruning changes only the num_gpu / num_cpu fields of jobs
\* over a limit: length, order and every other field of every job (size and
\* resource included) stay as they were, the value returned is the list that
\* was passed in, and for a missing (None) list it is an empty list.
C14_PruneFrame ==
    [][ /\ op'.name = "large_job_pruning" =>
              /\ op'.ret = job_list'
              /\ Len(job_list') = Len(job_list)
              /\ \A k \in 1 .. Len(job_list) :
                    LET old == job_list[k]
                        new == job_list'[k]
                    IN  /\ new = [old EXCEPT !.num_gpu = new.num_gpu,
                                             !.num_cpu = new.num_cpu]
                        /\ new.num_gpu # old.num_gpu => old.num_gpu > limits[1]
                        /\ new.num_cpu # old.num_cpu => old.num_cpu > limits[2]
        /\ op'.name = "large_job_pruning(None)" =>
              /\ op'.ret = <<>>
              /\ job_list' = job_list ]_vars

\* a call clamped a job's GPU request and left its size and resource at the
\* values computed from the request as submitted
C14_Witness ==
    /\ op.name = "large_job_pruning"
    /\ \E k \in 1 .. Len(job_list) :
          LET job == job_list[k]
          IN  /\ job.num_gpu = limits[1]
              /\ job.resource[1] > limits[1]
              /\ job.size = (job.resource[1] + job.resource[2]) * job.duration
              /\ job.size # (job.num_gpu + job.num_cpu) * job.duration

\* C6: once a job built by _add_job has passed large_job_pruning, the values
\* in its resource field do not exceed the caps.
C6_ResourceWithinCaps ==
    op.name = "large_job_pruning" =>
        \A k \in 1 .. Len(job_list) :
            /\ job_list[k].resource[1] <= limits[1]
            /\ job_list[k].resource[2] <= limits[2]

-----------------------------------------------------------------------------
(* Lottery scheduling (utils.py 249-282).  group_gpu_dur is a float, kept  *)
(* in halves (3 stands for 1.5).  The loop index i and winning_index are   *)
(* 0-based as in the code; sequences are 1-based, hence the "+ 1".         *)
DurUnit == 1 + 1

Max(a, b) == IF a > b THEN a ELSE b

\* assign_tickets(job, weight_factor): max(int(group_gpu_dur * weight_factor), 1)
assign_tickets(job, weight_factor) ==
    Max(Trunc(job.group_gpu_dur * weight_factor, DurUnit), 1)

\* lines 259-262: the jobs with their tickets
WithTickets(jobs) ==
    [k \in 1 .. Len(jobs) |->
        [job_id |-> jobs[k].job_id, user |-> jobs[k].user,
         group |-> jobs[k].group, group_gpu_dur |-> jobs[k].group_gpu_dur,
         tickets |-> assign_tickets(jobs[k], 1)]]

RECURSIVE TicketSum(_, _, _)
\* the tickets of jobs[from .. to] (1-based, inclusive), added up
TicketSum(jobs, from, to) ==
    IF from > to THEN 0 ELSE jobs[to].tickets + TicketSum(jobs, from, to - 1)

\* lines 259-262: the running sums appended to cumulative_tickets
Cumulative(jobs) == [k \in 1 .. Len(jobs) |-> TicketSum(jobs, 1, k)]

\* a search for an entry strictly above the winning ticket
Reaching_Strict(cumul, ticket) ==
    {x \in 0 .. Len(cumul) - 1 : cumul[x + 1] > ticket}

\* line 272: the indices whose cumulative entry reaches the winning ticket
Reaching(cumul, ticket) == {x \in 0 .. Len(cumul) - 1 : cumul[x + 1] >= ticket}

\* line 272: next(...) yields the first of them
FirstReaching(cumul, ticket) ==
    CHOOSE x \in Reaching(cumul, ticket) :
        \A y \in Reaching(cumul, ticket) : x <= y

\* an assignment of the winner to position a that drops the job in a
Swap_Overwrite(jobs, a, b) == [jobs EXCEPT ![a + 1] = jobs[b + 1]]

\* line 275: job_list[a], job_list[b] = job_list[b], job_list[a]
Swap(jobs, a, b) ==
    [jobs EXCEPT ![a + 1] = jobs[b + 1], ![b + 1] = jobs[a + 1]]

\* lines 278-281: cumulative_tickets after the update of iteration idx
UpdateCumulative(cumul, jobs, idx, win) ==
    IF idx # win
    THEN [x \in 1 .. Len(cumul) |->
             IF idx <= x - 1 /\ x - 1 <= win
             THEN cumul[x] - jobs[idx + 1].tickets
             ELSE cumul[x]]
    ELSE cumul

\* the job lists lottery_sort is called with
GpuDurs == {1, 4, 6}
Groups == {"g1", "g2"}
LotteryInputs ==
    UNION { [1 .. n -> GpuDurs] : n \in 0 .. MaxLotteryJobs }
LotteryJob(k, dur) ==
    [job_id |-> k, user |-> "u1", group |-> "g1", group_gpu_dur |-> dur]

InitLottery ==
    /\ op = [name |-> "init"]
    /\ \E durs \in LotteryInputs :
          job_list = [k \in 1 .. Len(durs) |-> LotteryJob(k, durs[k])]
    /\ limits = <<0, 0>>
    /\ calls = 0
    /\ cumulative_tickets = <<>>
    /\ total_tickets = 0
    /\ i = -1
    /\ winning_ticket = 0
    /\ winning_index = -1
    /\ pc = "call"
    /\ draws = <<>>
    /\ input_list = <<>>
    /\ BufferIdle /\ AgentIdle /\ FairIdle
    /\ RandomIdle

\* lottery_sort(job_list), lines 256-262
LotteryStart ==
    /\ pc = "call"
    /\ input_list' = job_list
    /\ job_list' = WithTickets(job_list)
    /\ cumulative_tickets' = Cumulative(job_list')
    /\ total_tickets' = TicketSum(job_list', 1, Len(job_list'))
    /\ pc' = "loop"
    /\ calls' = calls + 1
    /\ op' = [name |-> "lottery_sort"]
    /\ UNCHANGED <<i, winning_ticket, winning_index, draws, limits, randomVars>>
    /\ UNCHANGED <<bufferVars, agentVars, fairVars>>

\* one iteration of the loop, lines 264-282, with the draw of line 269
LotteryIter(ticket) ==
    /\ pc = "loop"
    /\ i + 1 < Len(job_list)
    /\ total_tickets > 0
    /\ ticket \in 1 .. total_tickets
    /\ i' = i + 1
    /\ winning_ticket' = ticket
    /\ draws' = Append(draws, ticket)
    /\ op' = [name |-> "iteration"]
    /\ IF Reaching(cumulative_tickets, ticket) = {}
       THEN \* next() on the exhausted generator raises StopIteration
            /\ pc' = "StopIteration"
            /\ UNCHANGED <<winning_index, job_list, cumulative_tickets,
                           total_tickets>>
       ELSE /\ winning_index' = FirstReaching(cumulative_tickets, ticket)
            /\ job_list' = Swap(job_list, i', winning_index')
            /\ cumulative_tickets' =
                   UpdateCumulative(cumulative_tickets, job_list', i',
                                    winning_index')
            /\ total_tickets' = total_tickets - job_list'[i' + 1].tickets
            /\ pc' = "loop"
    /\ UNCHANGED <<calls, input_list, limits, randomVars>>
    /\ UNCHANGED <<bufferVars, agentVars, fairVars>>

\* lines 265-266: the loop is left early
LotteryBreak ==
    /\ pc = "loop"
    /\ i + 1 < Len(job_list)
    /\ total_tickets <= 0
    /\ i' = i + 1
    /\ pc' = "done"
    /\ op' = [name |-> "break"]
    /\ UNCHANGED <<job_list, cumulative_tickets, total_tickets, winning_ticket,
                   winning_index, draws, input_list, calls, limits, randomVars>>
    /\ UNCHANGED <<bufferVars, agentVars, fairVars>>

\* the range is exhausted and lottery_sort returns
LotteryReturn ==
    /\ pc = "loop"
    /\ i + 1 >= Len(job_list)
    /\ pc' = "done"
    /\ op' = [name |-> "return"]
    /\ UNCHANGED <<job_list, cumulative_tickets, total_tickets, i,
                   winning_ticket, winning_index, draws, input_list, calls,
                   limits, randomVars>>
    /\ UNCHANGED <<bufferVars, agentVars, fairVars>>

NextLottery ==
    \/ LotteryStart
    \/ \E ticket \in 1 .. total_tickets : LotteryIter(ticket)
    \/ LotteryBreak
    \/ LotteryReturn

SpecLottery == InitLottery /\ [][NextLottery]_vars

\* the 0-based position, in the list as passed, of the job whose interval of
\* the initial cumulative sums contains the ticket
InitialHolder(jobs, ticket) ==
    CHOOSE x \in 0 .. Len(jobs) - 1 :
        /\ TicketSum(WithTickets(jobs), 1, x) < ticket
        /\ ticket <= TicketSum(WithTickets(jobs), 1, x + 1)

\* an iteration of the loop has completed its body
IterationDone == pc \in {"loop", "done"} /\ op.name = "iteration"

C8_FirstByTicketShare ==
    (pc = "done" /\ draws # <<>>) =>
        job_list[1].job_id =
            input_list[InitialHolder(input_list, draws[1]) + 1].job_id

\* C9: after each iteration i, for every index j > i, cumulative_tickets[j]
\* is the sum of the tickets of the jobs now at positions i+1 .. j.
C9_CumulativeConsistent ==
    IterationDone =>
        \A j \in i + 1 .. Len(job_list) - 1 :
            cumulative_tickets[j + 1] = TicketSum(job_list, i + 2, j + 1)

\* C16: at the start of every iteration i total_tickets is the sum of the
\* tickets of the jobs at positions i .. n-1, so it is never negative and the
\* early exit (total_tickets <= 0) is never taken while unplaced jobs remain.
C16_TicketsOfUnplaced ==
    /\ pc = "loop" =>
          /\ total_tickets = TicketSum(job_list, i + 2, Len(job_list))
          /\ total_tickets >= 0
    /\ op.name # "break"

\* some entry of cumulative_tickets is at least total_tickets
SearchCanSucceed ==
    \E x \in 1 .. Len(cumulative_tickets) :
        cumulative_tickets[x] >= total_tickets

\* C17: in every iteration and for every draw in 1 .. total_tickets the search
\* of line 272 finds an index (some cumulative entry is always >=
\* total_tickets): lottery_sort never fails with an exhausted search.
C17_SearchFinds ==
    /\ pc # "StopIteration"
    /\ (pc = "loop" /\ i + 1 < Len(job_list) /\ total_tickets > 0)
          => SearchCanSucceed

\* a run of three iterations in which the last search stopped at an index
\* below i
C17_Witness ==
    /\ pc = "done"
    /\ Len(draws) = MaxLotteryJobs
    /\ i = MaxLotteryJobs - 1
    /\ winning_index < i

\* the jobs of a list, by job_id, as a bag
JobBag(jobs) ==
    [id \in {jobs[k].job_id : k \in 1 .. Len(jobs)} |->
        Cardinality({k \in 1 .. Len(jobs) : jobs[k].job_id = id})]

\* C18: the list left by lottery_sort is a permutation of the input list for
\* every job list and every sequence of draws, early exits included: no job
\* is lost or duplicated and the length is unchanged.
C18_Permutation ==
    pc \in {"loop", "done", "StopIteration"} =>
        /\ Len(job_list) = Len(input_list)
        /\ JobBag(job_list) = JobBag(input_list)
        /\ \A k \in 1 .. Len(job_list) : \E m \in 1 .. Len(input_list) :
              job_list[k] = WithTickets(input_list)[m]

\* the loop was left early with the jobs in another order than they came in
C18_Witness ==
    /\ pc = "done"
    /\ op.name = "break"
    /\ Len(job_list) = MaxLotteryJobs
    /\ job_list # WithTickets(input_list)

-----------------------------------------------------------------------------
(* Fair share (utils.py 285-321). *)
FairShareGroup == 13    \* ALLOC_POLICY_DICT key of 'FairShareGroup'
FairShareUser == 14     \* ALLOC_POLICY_DICT key of 'FairShareUser'

Users == {"u1", "u2"}

\* the consumer a policy accounts a job to: job['group'] or job['user']
Consumer(job, pol) == IF pol = FairShareGroup THEN job.group ELSE job.user

\* a dict that carries the usage of the previous call over
FreshUsage_Persistent(jobs, pol) ==
    [c \in {Consumer(jobs[k], pol) : k \in 1 .. Len(jobs)} |->
        IF c \in DOMAIN gpu_time_used THEN gpu_time_used[c] ELSE 0]

\* lines 290-296 / 307-313: a fresh dict with 0 for every consumer on the list
FreshUsage(jobs, pol) ==
    [c \in {Consumer(jobs[k], pol) : k \in 1 .. Len(jobs)} |-> 0]

RECURSIVE InsertByKey(_, _, _)
\* x put into the sorted sequence s behind every element whose key is <= its own
InsertByKey(s, x, key) ==
    IF s = <<>> THEN <<x>>
    ELSE IF key[x] < key[Head(s)] THEN <<x>> \o s
    ELSE <<Head(s)>> \o InsertByKey(Tail(s), x, key)

RECURSIVE SortedPositions(_, _)
\* the positions 1 .. n in ascending order of key, ties in list order
SortedPositions(n, key) ==
    IF n = 0 THEN <<>> ELSE InsertByKey(SortedPositions(n - 1, key), n, key)

\* job_list.sort(key=lambda job: gpu_time_used[consumer]): a stable sort
SortByUsage(jobs, usage, pol) ==
    LET key == [k \in 1 .. Len(jobs) |-> usage[Consumer(jobs[k], pol)]]
        order == SortedPositions(Len(jobs), key)
    IN  [k \in 1 .. Len(jobs) |-> jobs[order[k]]]

RECURSIVE AddUsage(_, _, _, _)
\* lines 302-304 / 319-321: usage after adding group_gpu_dur of jobs[1 .. n]
AddUsage(usage, jobs, n, pol) ==
    IF n = 0 THEN usage
    ELSE LET u == AddUsage(usage, jobs, n - 1, pol)
             c == Consumer(jobs[n], pol)
         IN  [u EXCEPT ![c] = u[c] + jobs[n].group_gpu_dur]

\* the job lists fair_share_* is called with
FairJobs == [group : Groups, user : Users, group_gpu_dur : {2, 4}]
FairInputs == UNION { [1 .. n -> FairJobs] : n \in 0 .. MaxFairJobs }

InitFair ==
    /\ op = [name |-> "init"]
    /\ \E in \in FairInputs :
          job_list = [k \in 1 .. Len(in) |->
                         [job_id |-> k, user |-> in[k].user,
                          group |-> in[k].group,
                          group_gpu_dur |-> in[k].group_gpu_dur]]
    /\ policy \in {FairShareGroup, FairShareUser}
    /\ gpu_time_used = <<>>
    /\ limits = <<0, 0>>
    /\ calls = 0
    /\ BufferIdle /\ AgentIdle /\ LotteryIdle
    /\ RandomIdle

\* one call of fair_share_group / fair_share_user, whichever pol selects
FairShare(pol) ==
    /\ policy = pol
    /\ calls < MaxFairCalls
    /\ LET sorted == SortByUsage(job_list, FreshUsage(job_list, pol), pol)
       IN  /\ job_list' = sorted
           /\ gpu_time_used' =
                  AddUsage(FreshUsage(job_list, pol), sorted, Len(sorted), pol)
    /\ calls' = calls + 1
    /\ op' = [name |-> IF pol = FairShareGroup THEN "fair_share_group"
                       ELSE "fair_share_user"]
    /\ UNCHANGED <<policy, limits, randomVars>>
    /\ UNCHANGED <<bufferVars, agentVars, lotteryVars>>

fair_share_group == FairShare(FairShareGroup)
fair_share_user == FairShare(FairShareUser)

NextFair ==
    \/ fair_share_group
    \/ fair_share_user

SpecFair == InitFair /\ [][NextFair]_vars

RECURSIVE JobTime(_, _, _, _)
\* the group_gpu_dur of the jobs of consumer c among jobs[1 .. n], added up
JobTime(jobs, n, c, pol) ==
    IF n = 0 THEN 0
    ELSE JobTime(jobs, n - 1, c, pol)
            + (IF Consumer(jobs[n], pol) = c THEN jobs[n].group_gpu_dur ELSE 0)

\* C10: with two consumers of equal initial usage, after one call the
\* consumer with fewer scheduled job-time-units has its jobs ordered ahead of
\* the other consumer's jobs by the next call.
C10_FairShareAdvances ==
    calls >= 2 =>
        \A a \in DOMAIN gpu_time_used, b \in DOMAIN gpu_time_used :
            (/\ Cardinality(DOMAIN gpu_time_used) = 2
             /\ JobTime(job_list, Len(job_list), a, policy)
                    < JobTime(job_list, Len(job_list), b, policy))
            => \A x \in 1 .. Len(job_list), y \in 1 .. Len(job_list) :
                  (/\ Consumer(job_list[x], policy) = a
                   /\ Consumer(job_list[y], policy) = b) => x < y

-----------------------------------------------------------------------------
(* The random module's global generator, used by ReplayBuffer.__init__     *)
(* (rl_helpers.py 32), DQNAgent.__init__ (57), ReplayBuffer.sample (39),   *)
(* DQNAgent.act (89, 92) and lottery_sort (utils.py 269).  A generator's   *)
(* state is the seed it was last seeded with and the number of values      *)
(* drawn since; the values drawn are a function of that state.             *)
Components == {"act", "sample", "lottery_sort"}

\* random.seed(seed)
Seeded(seed) == [seed |-> seed, pos |-> 0]

\* the generator after n more values were drawn
Advance(g, n) == [g EXCEPT !.pos = g.pos + n]

\* the module-level agent has been constructed with the seed of the run; the
\* generator each component would read if the seed were threaded through to it
InitRandom ==
    /\ op = [name |-> "init"]
    /\ \E seed \in Seeds :
          /\ rng = Seeded(seed)
          /\ streams = [c \in Components |-> Seeded(seed)]
    /\ calls = 0
    /\ BufferIdle /\ AgentIdle /\ JobsIdle /\ LotteryIdle /\ FairIdle

\* a component draws n values: it reads the global generator
Draw(c, n) ==
    /\ calls < MaxRandomCalls
    /\ op' = [name |-> c, read |-> rng, own |-> streams[c], n |-> n]
    /\ rng' = Advance(rng, n)
    /\ streams' = [streams EXCEPT ![c] = Advance(streams[c], n)]
    /\ calls' = calls + 1
    /\ UNCHANGED <<job_list, limits>>
    /\ UNCHANGED <<bufferVars, agentVars, lotteryVars, fairVars>>

\* agent.act: random.random(), and random.choice when it explores
RandomAct == \E explores \in BOOLEAN : Draw("act", IF explores THEN 2 ELSE 1)

\* ReplayBuffer.sample: random.sample(self.memory, k=self.batch_size)
RandomSample == Draw("sample", AgentBatchSize)

\* lottery_sort: one random.randint per iteration carried out
RandomLottery == \E n \in 1 .. MaxLotteryJobs : Draw("lottery_sort", n)

\* ReplayBuffer(...) or DQNAgent(...) is constructed somewhere else in the
\* run: random.seed(seed) reseeds the one global generator
Reseed(seed) ==
    /\ calls < MaxRandomCalls
    /\ rng' = Seeded(seed)
    /\ op' = [name |-> "random.seed", seed |-> seed]
    /\ calls' = calls + 1
    /\ UNCHANGED <<streams, job_list, limits>>
    /\ UNCHANGED <<bufferVars, agentVars, lotteryVars, fairVars>>

NextRandom ==
    \/ RandomAct
    \/ RandomSample
    \/ RandomLottery
    \/ \E seed \in Seeds : Reseed(seed)

SpecRandom == InitRandom /\ [][NextRandom]_vars

\* C11: no randomized component depends on hidden global random state: what
\* lottery_sort, act's exploration and sample draw is determined by the
\* component's own seed and own earlier draws, however the calls of the other
\* components and the construction of other buffers or agents are interleaved.
C11_NoHiddenRandomState ==
    op.name \in Components => op.read = op.own

-----------------------------------------------------------------------------
(* add_user_round_robin_id (utils.py 142-154).                             *)

\* rrid = user_rrid_dict.get(user, None), 0 when there is no entry
RridFor(user_rrid_dict, user) ==
    IF user \in DOMAIN user_rrid_dict THEN user_rrid_dict[user] ELSE 0

\* the counter of a user that is already in the dict is left alone
BumpCounter_Stuck(user_rrid_dict, user) ==
    IF user \in DOMAIN user_rrid_dict
    THEN user_rrid_dict
    ELSE [u \in DOMAIN user_rrid_dict \cup {user} |->
             IF u = user THEN 1 ELSE user_rrid_dict[u]]

\* lines 149-153: the entry becomes 1 for a new user, else is incremented
BumpCounter(user_rrid_dict, user) ==
    IF user \in DOMAIN user_rrid_dict
    THEN [user_rrid_dict EXCEPT ![user] = @ + 1]
    ELSE [u \in DOMAIN user_rrid_dict \cup {user} |->
             IF u = user THEN 1 ELSE user_rrid_dict[u]]

\* job['user_rrid'] = rrid
SetRrid(job, rrid) ==
    [job_id |-> job.job_id, user |-> job.user, user_rrid |-> rrid]

\* the loop of lines 146-154 from position k on, with the dict built so far
RECURSIVE RridLoop(_, _, _)
RridLoop(jobs, k, user_rrid_dict) ==
    IF k > Len(jobs) THEN jobs
    ELSE LET user == jobs[k].user
             done == [jobs EXCEPT
                         ![k] = SetRrid(jobs[k], RridFor(user_rrid_dict, user))]
         IN  RridLoop(done, k + 1, BumpCounter(user_rrid_dict, user))

\* the list after add_user_round_robin_id(job_list): a new dict each time
add_user_round_robin_id(jobs) == RridLoop(jobs, 1, <<>>)

\* batches of jobs that have not been given a user_rrid yet
BatchInputs ==
    UNION { [1 .. n -> Users] : n \in 0 .. MaxBatchJobs }

InitRoundRobin ==
    /\ op = [name |-> "init"]
    /\ \E us \in BatchInputs :
          job_list = [k \in 1 .. Len(us) |-> [job_id |-> k, user |-> us[k]]]
    /\ limits = <<>>
    /\ calls = 0
    /\ BufferIdle /\ AgentIdle /\ LotteryIdle /\ FairIdle
    /\ RandomIdle

\* add_user_round_robin_id(job_list)
AddUserRoundRobinId ==
    /\ calls < MaxRridCalls
    /\ job_list' = add_user_round_robin_id(job_list)
    /\ op' = [name |-> "add_user_round_robin_id"]
    /\ calls' = calls + 1
    /\ UNCHANGED <<limits, randomVars>>
    /\ UNCHANGED <<bufferVars, agentVars, lotteryVars, fairVars>>

\* between two calls the scheduler takes a job out of the list
TakeJob(k) ==
    /\ k \in 1 .. Len(job_list)
    /\ job_list' = SubSeq(job_list, 1, k - 1) \o
                   SubSeq(job_list, k + 1, Len(job_list))
    /\ op' = [name |-> "take", k |-> k]
    /\ UNCHANGED <<calls, limits, randomVars>>
    /\ UNCHANGED <<bufferVars, agentVars, lotteryVars, fairVars>>

NextRoundRobin ==
    \/ AddUserRoundRobinId
    \/ \E k \in 1 .. MaxBatchJobs : TakeJob(k)

SpecRoundRobin == InitRoundRobin /\ [][NextRoundRobin]_vars

\* the number of jobs before position k that have the user of the job at k
EarlierSameUser(jobs, k) ==
    Cardinality({m \in 1 .. k - 1 : jobs[m].user = jobs[k].user})

\* C15: add_user_round_robin_id gives each job the number of earlier jobs of
\* the list with the same user (0, 1, ..., k-1 in list order for a user with
\* k jobs), so no two jobs of one user share a user_rrid; the result depends
\* on the current list only, whatever earlier calls assigned.
C15_RoundRobinIds ==
    [][ op'.name = "add_user_round_robin_id" =>
          /\ Len(job_list') = Len(job_list)
          /\ \A k \in 1 .. Len(job_list) :
                /\ job_list'[k].job_id = job_list[k].job_id
                /\ job_list'[k].user = job_list[k].user
                /\ job_list'[k].user_rrid = EarlierSameUser(job_list, k)
          /\ \A k, m \in 1 .. Len(job_list) :
                (k # m /\ job_list'[k].user = job_list'[m].user)
                   => job_list'[k].user_rrid # job_list'[m].user_rrid ]_vars

\* a second call on what is left of a batch of three jobs of one user: the
\* job that was second in the batch is numbered 0 again
C15_Witness ==
    /\ op.name = "add_user_round_robin_id"
    /\ calls = MaxRridCalls
    /\ Len(job_list) = MaxBatchJobs - 1
    /\ job_list[1].job_id = 2 /\ job_list[1].user_rrid = 0
    /\ job_list[2].user = job_list[1].user /\ job_list[2].user_rrid = 1

=============================================================================
